---- MODULE Spec2Model ----
(***************************************************************************)
(* The FDX front-end of screenplain: the paragraph classifier              *)
(* (InputParagraph.update_list and its five append_* rules) and the        *)
(* paragraph walk of parse_body, src/screenplain/parsers/fdx.py.           *)
(*                                                                         *)
(* A Python str is a sequence of one-character strings, so that upper(),   *)
(* strip(), rstrip(), split('\n') and the emphasis parser are computed    *)
(* character by character.                                                 *)
(***************************************************************************)
EXTENDS Integers, Sequences, FiniteSets, TLC

VARIABLES
    paragraphs,   \* the accumulator list that update_list modifies
    para,         \* the InputParagraph of the last update_list call
    tried,        \* the append_* rules that call evaluated, in order
    turn,         \* history: the cue and the lines fed to the speaking turn at the tail
    nblocks,      \* number of update_list calls so far
    merged,       \* history: number of those calls that append_dialog consumed
    root,         \* parse_body: the Paragraph nodes root.xpath("Content//Paragraph") finds
    idx,          \* parse_body: position of the for loop in the slice of that list
    pc,           \* "idle", or where parse_body ("call", "loop", "done") or main is
    fed,          \* history: pos of each Paragraph submitted to update_list, in order
    args,         \* main: the positional arguments parse_args leaves
    options,      \* main: the values of --input-format and --output-format
    input_file,   \* main: the input file name, or None
    output_file,  \* main: the output file name, or None
    input_format, \* main
    output_format, \* main
    input,        \* main: the stream the screenplay is read from
    screenplay,   \* main: what the parser returned
    output,       \* main: the stream the exporter writes to
    exported,     \* main: the exporters called, in order
    closed,       \* main: output.close() was called
    error         \* main: how the run ended early: parser.error or an exception

mainVars ==
    <<args, options, input_file, output_file, input_format, output_format,
      input, screenplay, output, exported, closed, error>>

vars ==
    <<paragraphs, para, tried, turn, nblocks, merged, root, idx, pc, fed, mainVars>>

(***************************************************************************)
(* Bounds.                                                                 *)
(***************************************************************************)
MaxBlocks == 3
MaxParas == 3

(***************************************************************************)
(* Python str operations.                                                  *)
(***************************************************************************)
NL == "\n"

Whitespace == {" ", NL}

UpperChar(c) ==
    CASE c = "a" -> "A"
      [] c = "b" -> "B"
      [] OTHER -> c

upper(s) == [i \in 1..Len(s) |-> UpperChar(s[i])]

RECURSIVE lstrip(_)
lstrip(s) ==
    IF s = <<>> THEN <<>>
    ELSE IF Head(s) \in Whitespace THEN lstrip(Tail(s)) ELSE s

RECURSIVE rstrip(_)
rstrip(s) ==
    IF s = <<>> THEN <<>>
    ELSE IF s[Len(s)] \in Whitespace THEN rstrip(SubSeq(s, 1, Len(s) - 1)) ELSE s

strip(s) == lstrip(rstrip(s))

\* s.splitlines() in the place of s.split('\n'): no piece for the empty str
RECURSIVE splitlines(_)
splitlines(s) ==
    IF s = <<>> THEN <<>>
    ELSE IF \A i \in 1..Len(s) : s[i] # NL THEN <<s>>
    ELSE LET i == CHOOSE k \in 1..Len(s) :
                      s[k] = NL /\ \A j \in 1..(k - 1) : s[j] # NL
         IN  <<SubSeq(s, 1, i - 1)>> \o splitlines(SubSeq(s, i + 1, Len(s)))

\* s.split('\n'): always at least one piece
RECURSIVE split(_)
split(s) ==
    IF \A i \in 1..Len(s) : s[i] # NL THEN <<s>>
    ELSE LET i == CHOOSE k \in 1..Len(s) :
                      s[k] = NL /\ \A j \in 1..(k - 1) : s[j] # NL
         IN  <<SubSeq(s, 1, i - 1)>> \o split(SubSeq(s, i + 1, Len(s)))

(***************************************************************************)
(* screenplain.richstring: a RichString is a sequence of segments, each a  *)
(* literal text with a set of styles.  A pair of '*' delimiters around a   *)
(* non-empty text makes an italic segment; a delimiter without a partner   *)
(* is literal text.  The other delimiters and the escape character are     *)
(* outside the alphabet of the model.                                      *)
(***************************************************************************)
Star == "*"

Segment(text, styles) == [text |-> text, styles |-> styles]

plain(text) == IF text = <<>> THEN <<>> ELSE <<Segment(text, {})>>

\* concatenation of RichStrings; adjacent segments of one style are one segment
Join(r1, r2) ==
    IF r1 = <<>> THEN r2
    ELSE IF r2 = <<>> THEN r1
    ELSE IF r1[Len(r1)].styles = r2[1].styles
         THEN SubSeq(r1, 1, Len(r1) - 1)
                \o <<Segment(r1[Len(r1)].text \o r2[1].text, r2[1].styles)>>
                \o Tail(r2)
         ELSE r1 \o r2

FirstStar(s, from) ==
    IF \E k \in from..Len(s) : s[k] = Star
    THEN CHOOSE k \in from..Len(s) :
             s[k] = Star /\ \A j \in from..(k - 1) : s[j] # Star
    ELSE 0

RECURSIVE parse_emphasis(_)
parse_emphasis(s) ==
    LET i == FirstStar(s, 1)
        j == IF i = 0 THEN 0 ELSE FirstStar(s, i + 1)
    IN  IF j = 0 THEN plain(s)
        ELSE IF j = i + 1
             THEN Join(plain(SubSeq(s, 1, i)), parse_emphasis(SubSeq(s, j, Len(s))))
             ELSE Join(plain(SubSeq(s, 1, i - 1)),
                       Join(<<Segment(SubSeq(s, i + 1, j - 1), {"italic"})>>,
                            parse_emphasis(SubSeq(s, j + 1, Len(s)))))

\* str(RichString): the literal texts of the segments, the styles are not written
RECURSIVE str(_)
str(r) == IF r = <<>> THEN <<>> ELSE r[1].text \o str(Tail(r))

_sequence_to_rich(lines) == [i \in 1..Len(lines) |-> parse_emphasis(lines[i])]

_string_to_rich(line) == parse_emphasis(line)

(***************************************************************************)
(* screenplain.types: the elements of a screenplay.  A Dialog built from   *)
(* lines holds one block per line, in order; the Dialog decides from the   *)
(* text whether a block is a parenthetical.                                *)
(***************************************************************************)
Slug(line) == [kind |-> "Slug", line |-> line]

Action(lines) == [kind |-> "Action", lines |-> lines]

Transition(line) == [kind |-> "Transition", line |-> line]

IsParenthetical(text) == str(text) # <<>> /\ Head(str(text)) = "("

Dialog(character, lines) ==
    [kind |-> "Dialog",
     character |-> character,
     blocks |-> [i \in 1..Len(lines) |-> <<IsParenthetical(lines[i]), lines[i]>>]]

(***************************************************************************)
(* InputParagraph and its rules.  A rule is applied to the paragraph and   *)
(* the list and gives the value it returns (ok) and the list it leaves.    *)
(***************************************************************************)
InputParagraph(lines_type, lines) == [lines_type |-> lines_type, lines |-> lines]

Result(ok, list) == [ok |-> ok, paragraphs |-> list]

\* append_slug without the test that there is exactly one line
append_slug_any_length(self, list) ==
    IF Len(self.lines) < 1 THEN Result(FALSE, list)
    ELSE IF self.lines_type \notin {"Scene Heading", "Shot"} THEN Result(FALSE, list)
    ELSE LET text == self.lines[1]
         IN  Result(TRUE, Append(list, Slug(_string_to_rich(upper(text)))))

append_slug(self, list) ==
    IF Len(self.lines) # 1 THEN Result(FALSE, list)
    ELSE IF self.lines_type \notin {"Scene Heading", "Shot"} THEN Result(FALSE, list)
    ELSE LET text == self.lines[1]
         IN  Result(TRUE, Append(list, Slug(_string_to_rich(upper(text)))))

\* append_character that takes the place of a cue still waiting for its lines
append_character_replacing(self, list) ==
    IF Len(self.lines) # 1 THEN Result(FALSE, list)
    ELSE IF self.lines_type # "Character" THEN Result(FALSE, list)
    ELSE LET character == self.lines[1]
             kept == IF /\ list # <<>>
                        /\ list[Len(list)].kind = "Dialog"
                        /\ list[Len(list)].blocks = <<>>
                     THEN SubSeq(list, 1, Len(list) - 1)
                     ELSE list
         IN  Result(TRUE,
                    Append(kept, Dialog(parse_emphasis(upper(strip(character))), <<>>)))

append_character(self, list) ==
    IF Len(self.lines) # 1 THEN Result(FALSE, list)
    ELSE IF self.lines_type # "Character" THEN Result(FALSE, list)
    ELSE LET character == self.lines[1]
         IN  Result(TRUE,
                    Append(list, Dialog(parse_emphasis(upper(strip(character))), <<>>)))

\* append_dialog that opens a Dialog of its own when there is none at the tail
append_dialog_unattached(self, list) ==
    IF Len(self.lines) < 1 THEN Result(FALSE, list)
    ELSE IF self.lines_type \notin {"Dialogue", "Parenthetical"} THEN Result(FALSE, list)
    ELSE LET attached == list # <<>> /\ list[Len(list)].kind = "Dialog"
             previous == IF attached THEN list[Len(list)] ELSE Dialog(<<>>, <<>>)
             popped == IF attached THEN SubSeq(list, 1, Len(list) - 1) ELSE list
             current_lines ==
                 [i \in 1..Len(previous.blocks) |-> str(previous.blocks[i][2])]
                   \o self.lines
         IN  Result(TRUE,
                    Append(popped,
                           Dialog(parse_emphasis(strip(str(previous.character))),
                                  _sequence_to_rich(
                                      [i \in 1..Len(current_lines) |->
                                          strip(current_lines[i])]))))

\* append_dialog that knows the Dialogue tag alone
append_dialog_spoken_only(self, list) ==
    IF Len(self.lines) < 1 THEN Result(FALSE, list)
    ELSE IF self.lines_type \notin {"Dialogue"} THEN Result(FALSE, list)
    ELSE IF list = <<>> \/ list[Len(list)].kind # "Dialog" THEN Result(FALSE, list)
    ELSE LET previous == list[Len(list)]
             popped == SubSeq(list, 1, Len(list) - 1)
             current_lines ==
                 [i \in 1..Len(previous.blocks) |-> str(previous.blocks[i][2])]
                   \o self.lines
         IN  Result(TRUE,
                    Append(popped,
                           Dialog(parse_emphasis(strip(str(previous.character))),
                                  _sequence_to_rich(
                                      [i \in 1..Len(current_lines) |->
                                          strip(current_lines[i])]))))

\* append_dialog that pops the tail before it has tested that it is a Dialog
append_dialog_early_pop(self, list) ==
    IF Len(self.lines) < 1 THEN Result(FALSE, list)
    ELSE IF self.lines_type \notin {"Dialogue", "Parenthetical"} THEN Result(FALSE, list)
    ELSE IF list = <<>> THEN Result(FALSE, list)
    ELSE LET previous == list[Len(list)]
             popped == SubSeq(list, 1, Len(list) - 1)
         IN  IF previous.kind # "Dialog" THEN Result(FALSE, popped)
             ELSE LET current_lines ==
                          [i \in 1..Len(previous.blocks) |->
                              str(previous.blocks[i][2])] \o self.lines
                  IN  Result(TRUE,
                             Append(popped,
                                    Dialog(parse_emphasis(strip(str(previous.character))),
                                           _sequence_to_rich(
                                               [i \in 1..Len(current_lines) |->
                                                   strip(current_lines[i])]))))

\* current_lines holds the stored RichStrings and then the new str lines, and
\* str() is applied to each: it writes a RichString out and leaves a str as it is.
append_dialog(self, list) ==
    IF Len(self.lines) < 1 THEN Result(FALSE, list)
    ELSE IF self.lines_type \notin {"Dialogue", "Parenthetical"} THEN Result(FALSE, list)
    ELSE IF list = <<>> \/ list[Len(list)].kind # "Dialog" THEN Result(FALSE, list)
    ELSE LET previous == list[Len(list)]
             popped == SubSeq(list, 1, Len(list) - 1)
             current_lines ==
                 [i \in 1..Len(previous.blocks) |-> str(previous.blocks[i][2])]
                   \o self.lines
         IN  Result(TRUE,
                    Append(popped,
                           Dialog(parse_emphasis(strip(str(previous.character))),
                                  _sequence_to_rich(
                                      [i \in 1..Len(current_lines) |->
                                          strip(current_lines[i])]))))

\* append_transition that keeps the case of the line
append_transition_as_is(self, list) ==
    IF Len(self.lines) # 1 THEN Result(FALSE, list)
    ELSE IF self.lines_type # "Transition" THEN Result(FALSE, list)
    ELSE LET text == self.lines[1]
         IN  Result(TRUE, Append(list, Transition(_string_to_rich(text))))

append_transition(self, list) ==
    IF Len(self.lines) # 1 THEN Result(FALSE, list)
    ELSE IF self.lines_type # "Transition" THEN Result(FALSE, list)
    ELSE LET text == self.lines[1]
         IN  Result(TRUE, Append(list, Transition(_string_to_rich(upper(text)))))

\* append_action that trims the lines on both sides
append_action_strip(self, list) ==
    Result(TRUE,
           Append(list,
                  Action(_sequence_to_rich(
                      [i \in 1..Len(self.lines) |-> strip(self.lines[i])]))))

\* append_action that leaves out a block with no text in it
append_action_skip_blank(self, list) ==
    IF \A i \in 1..Len(self.lines) : rstrip(self.lines[i]) = <<>>
    THEN Result(TRUE, list)
    ELSE Result(TRUE,
                Append(list,
                       Action(_sequence_to_rich(
                           [i \in 1..Len(self.lines) |-> rstrip(self.lines[i])]))))

append_action(self, list) ==
    Result(TRUE,
           Append(list,
                  Action(_sequence_to_rich(
                      [i \in 1..Len(self.lines) |-> rstrip(self.lines[i])]))))

\* update_list with append_action placed before append_transition
update_list_action_early(self, previous_paragraphs) ==
    LET r1 == append_slug(self, previous_paragraphs)
        r2 == append_character(self, r1.paragraphs)
        r3 == append_dialog(self, r2.paragraphs)
        r4 == append_action(self, r3.paragraphs)
    IN  IF r1.ok THEN [paragraphs |-> r1.paragraphs, tried |-> <<"slug">>]
        ELSE IF r2.ok
             THEN [paragraphs |-> r2.paragraphs, tried |-> <<"slug", "character">>]
        ELSE IF r3.ok
             THEN [paragraphs |-> r3.paragraphs,
                   tried |-> <<"slug", "character", "dialog">>]
        ELSE [paragraphs |-> r4.paragraphs,
              tried |-> <<"slug", "character", "dialog", "action">>]

\* The `or` chain: a rule is evaluated only if every rule before it returned
\* False, on the list as those rules left it.  Gives the list after the call and
\* the rules that were evaluated.
update_list(self, previous_paragraphs) ==
    LET r1 == append_slug(self, previous_paragraphs)
        r2 == append_character(self, r1.paragraphs)
        r3 == append_dialog(self, r2.paragraphs)
        r4 == append_transition(self, r3.paragraphs)
        r5 == append_action(self, r4.paragraphs)
    IN  IF r1.ok THEN [paragraphs |-> r1.paragraphs, tried |-> <<"slug">>]
        ELSE IF r2.ok
             THEN [paragraphs |-> r2.paragraphs, tried |-> <<"slug", "character">>]
        ELSE IF r3.ok
             THEN [paragraphs |-> r3.paragraphs,
                   tried |-> <<"slug", "character", "dialog">>]
        ELSE IF r4.ok
             THEN [paragraphs |-> r4.paragraphs,
                   tried |-> <<"slug", "character", "dialog", "transition">>]
        ELSE [paragraphs |-> r5.paragraphs,
              tried |-> <<"slug", "character", "dialog", "transition", "action">>]

(***************************************************************************)
(* Inputs.                                                                 *)
(***************************************************************************)
KnownTypes ==
    {"Scene Heading", "Shot", "Character", "Dialogue", "Parenthetical", "Transition"}

\* "General" stands for the type tags no rule names
Types == KnownTypes \cup {"General"}

Empty == <<>>
Padded == <<" ", "a", " ">>
Italic == <<"*", "a", "*">>
Paren == <<"(", "b", ")", " ">>

\* the `lines` of an InputParagraph: what split gives, one line or more
LineLists ==
    {<<Empty>>, <<Padded>>, <<Italic>>, <<Paren, Italic>>}

NoParagraph == InputParagraph("", <<>>)

NoTurn == [active |-> FALSE, cue |-> <<>>, lines |-> <<>>]

\* History of the speaking turn: a one-line Character block opens it, a
\* Dialogue or Parenthetical block with lines continues an open one, any other
\* block closes it.
NextTurn(t, self) ==
    IF self.lines_type = "Character" /\ Len(self.lines) = 1
    THEN [active |-> TRUE, cue |-> self.lines[1], lines |-> <<>>]
    ELSE IF /\ t.active
            /\ self.lines_type \in {"Dialogue", "Parenthetical"}
            /\ Len(self.lines) >= 1
         THEN [t EXCEPT !.lines = @ \o self.lines]
         ELSE NoTurn

\* One call self.update_list(paragraphs)
Classify(self) ==
    LET r == update_list(self, paragraphs)
    IN  /\ paragraphs' = r.paragraphs
        /\ tried' = r.tried
        /\ para' = self
        /\ turn' = NextTurn(turn, self)
        /\ nblocks' = nblocks + 1
        /\ merged' = merged + (IF r.tried[Len(r.tried)] = "dialog" THEN 1 ELSE 0)

(***************************************************************************)
(* Values of main.  A str is a sequence of pieces: a file name ends with   *)
(* the piece that is its extension.  parser.error prints the message and   *)
(* leaves the program (Usage); an exception that nothing catches ends it   *)
(* as well (Raised).                                                       *)
(***************************************************************************)
None == [is_none |-> TRUE, text |-> <<>>]

Str(s) == [is_none |-> FALSE, text |-> s]

NoError == [kind |-> "none", message |-> ""]

Usage(message) == [kind |-> "usage", message |-> message]

Raised(exception) == [kind |-> "exception", message |-> exception]

NoScreenplay == [is_none |-> TRUE, title |-> "", paragraphs |-> <<>>]

Screenplay(title, list) == [is_none |-> FALSE, title |-> title, paragraphs |-> list]

Unopened == [to |-> "unopened", encoding |-> ""]

\* the variables of main while main does not run
MainIdle ==
    /\ args = <<>>
    /\ options = [input_format |-> None, output_format |-> None]
    /\ input_file = None
    /\ output_file = None
    /\ input_format = None
    /\ output_format = None
    /\ input = "unopened"
    /\ screenplay = NoScreenplay
    /\ output = Unopened
    /\ exported = <<>>
    /\ closed = FALSE
    /\ error = NoError

(***************************************************************************)
(* Spec: the classifier, called with any sequence of InputParagraphs.      *)
(***************************************************************************)
Init ==
    /\ paragraphs = <<>>
    /\ para = NoParagraph
    /\ tried = <<>>
    /\ turn = NoTurn
    /\ nblocks = 0
    /\ merged = 0
    /\ root = <<>>
    /\ idx = 0
    /\ pc = "idle"
    /\ fed = <<>>
    /\ MainIdle

UpdateList ==
    /\ pc = "idle"
    /\ nblocks < MaxBlocks
    /\ \E lines_type \in Types, lines \in LineLists :
           Classify(InputParagraph(lines_type, lines))
    /\ UNCHANGED <<root, idx, pc, fed, mainVars>>

Next == UpdateList

Spec == Init /\ [][Next]_vars

(***************************************************************************)
(* SpecBody: parse_body over a document.  root holds the Paragraph nodes   *)
(* that root.xpath("Content//Paragraph") finds, in document order; pos is  *)
(* the place of a node in that order.  A Text child is its text attribute: *)
(* None, or a str.                                                         *)
(***************************************************************************)
Text(s) == [is_none |-> FALSE, text |-> s]

Paragraph(pos, type, texts) == [pos |-> pos, Type |-> type, Text |-> texts]

\* `if text.text`: neither None nor the empty str
Truthy(t) == ~t.is_none /\ t.text # <<>>

\* the loop over para.xpath("Text") that builds `line`
RECURSIVE JoinText(_)
JoinText(texts) ==
    IF texts = <<>> THEN <<>>
    ELSE (IF Truthy(Head(texts)) THEN Head(texts).text ELSE <<>>)
           \o JoinText(Tail(texts))

\* the slice [1:] with every node in it
SliceAll(nodes) == nodes

\* the slice [1:]
Slice(nodes) == SubSeq(nodes, 2, Len(nodes))

BodyTypes == {"Character", "Dialogue", "General"}

BodyTexts ==
    {<<>>, <<None, Text(Empty)>>, <<Text(Italic), None, Text(<<NL>> \o Paren)>>}

Documents ==
    UNION {
        {[i \in 1..n |-> Paragraph(i, f[i][1], f[i][2])] :
            f \in [1..n -> BodyTypes \X BodyTexts]} :
        n \in 0..MaxParas}

InitBody ==
    /\ root \in Documents
    /\ pc = "call"
    /\ paragraphs = <<>>
    /\ para = NoParagraph
    /\ tried = <<>>
    /\ turn = NoTurn
    /\ nblocks = 0
    /\ merged = 0
    /\ idx = 0
    /\ fed = <<>>
    /\ MainIdle

\* paragraphs = [] and the start of the for loop
ParseBodyEnter ==
    /\ pc = "call"
    /\ pc' = "loop"
    /\ paragraphs' = <<>>
    /\ idx' = 1
    /\ UNCHANGED <<para, tried, turn, nblocks, merged, root, fed, mainVars>>

\* one iteration of the for loop
ParseBodyIterate ==
    /\ pc = "loop"
    /\ idx <= Len(Slice(root))
    /\ LET node == Slice(root)[idx]
           para_type == node.Type
           line == JoinText(node.Text)
       IN  /\ Classify(InputParagraph(para_type, split(line)))
           /\ fed' = Append(fed, node.pos)
    /\ idx' = idx + 1
    /\ UNCHANGED <<root, pc, mainVars>>

\* return paragraphs
ParseBodyReturn ==
    /\ pc = "loop"
    /\ idx > Len(Slice(root))
    /\ pc' = "done"
    /\ UNCHANGED <<paragraphs, para, tried, turn, nblocks, merged, root, idx, fed,
                   mainVars>>

NextBody == ParseBodyEnter \/ ParseBodyIterate \/ ParseBodyReturn

SpecBody == InitBody /\ [][NextBody]_vars

(***************************************************************************)
(* SpecMain: one run of main(args), src/screenplain/main.py.  An input in  *)
(* the fdx format is parsed by parse_xml: etree.parse raises on a source   *)
(* that is not well-formed, and parse_body walks the tree of one that is.  *)
(***************************************************************************)
MaxArgs == 3

Dash == <<"-">>

endswith(s, suffix) ==
    /\ Len(s) >= Len(suffix)
    /\ SubSeq(s, Len(s) - Len(suffix) + 1, Len(s)) = suffix

output_formats == {<<"fdx">>, <<"html">>, <<"pdf">>}

input_formats == {<<"fdx">>, <<"fountain">>}

\* (len(args) > i and args[i] != '-') and args[i] or None, with no test for '-'
file_argument_any(argv, i) ==
    IF Len(argv) >= i /\ argv[i] # <<>> THEN Str(argv[i]) ELSE None

\* (len(args) > i and args[i] != '-') and args[i] or None (i counted from 1)
file_argument(argv, i) ==
    IF Len(argv) >= i /\ argv[i] # Dash /\ argv[i] # <<>> THEN Str(argv[i]) ELSE None

\* the if/elif chain of the export step without its last branch
exporters_no_pdf(format) ==
    IF format = Str(<<"text">>) THEN <<"to_text">>
    ELSE IF format = Str(<<"fdx">>) THEN <<"to_fdx">>
    ELSE IF format = Str(<<"html">>) THEN <<"convert">>
    ELSE <<>>

\* the if/elif chain of the export step: the exporters it calls
exporters(format) ==
    IF format = Str(<<"text">>) THEN <<"to_text">>
    ELSE IF format = Str(<<"fdx">>) THEN <<"to_fdx">>
    ELSE IF format = Str(<<"html">>) THEN <<"convert">>
    ELSE IF format = Str(<<"pdf">>) THEN <<"to_pdf">>
    ELSE <<>>

FileNames ==
    {Dash, <<"a", ".fdx">>, <<"a", ".fountain">>, <<"a", ".html">>,
     <<"a", ".pdf">>, <<"a", ".txt">>}

ArgLists == UNION {[1..n -> FileNames] : n \in 0..MaxArgs}

InputOptions == {None, Str(<<"fdx">>), Str(<<"fountain">>), Str(<<"text">>)}

OutputOptions ==
    {None, Str(<<"fdx">>), Str(<<"html">>), Str(<<"pdf">>), Str(<<"text">>)}

\* the well-formed sources main is run on: a first paragraph and one more
MainDocuments ==
    {d \in Documents : Len(d) = 2 /\ d[1] = Paragraph(1, "General", <<>>)}

InitMain ==
    /\ paragraphs = <<>>
    /\ para = NoParagraph
    /\ tried = <<>>
    /\ turn = NoTurn
    /\ nblocks = 0
    /\ merged = 0
    /\ root = <<>>
    /\ idx = 0
    /\ fed = <<>>
    /\ pc = "main"
    /\ args \in ArgLists
    /\ options \in [input_format : InputOptions, output_format : OutputOptions]
    /\ input_file = None
    /\ output_file = None
    /\ input_format = None
    /\ output_format = None
    /\ input = "unopened"
    /\ screenplay = NoScreenplay
    /\ output = Unopened
    /\ exported = <<>>
    /\ closed = FALSE
    /\ error = NoError

classifierVars == <<paragraphs, para, tried, turn, nblocks, merged, root, idx, fed>>

\* lines 81-85
MainArgs ==
    /\ pc = "main"
    /\ IF Len(args) >= 3
       THEN /\ error' = Usage("Too many arguments")
            /\ pc' = "exit"
            /\ UNCHANGED <<input_file, output_file>>
       ELSE /\ input_file' = file_argument(args, 1)
            /\ output_file' = file_argument(args, 2)
            /\ pc' = "input_format"
            /\ UNCHANGED error
    /\ UNCHANGED <<classifierVars, args, options, input_format, output_format,
                   input, screenplay, output, exported, closed>>

\* lines 87-102.  Line 96 adds input_format, which is None there, to a str.
MainInputFormat ==
    /\ pc = "input_format"
    /\ LET detect == options.input_format.is_none /\ ~input_file.is_none
           undetected ==
               /\ detect
               /\ ~endswith(input_file.text, <<".fdx">>)
               /\ ~endswith(input_file.text, <<".fountain">>)
           format ==
               IF ~detect THEN options.input_format
               ELSE IF endswith(input_file.text, <<".fdx">>) THEN Str(<<"fdx">>)
               ELSE IF endswith(input_file.text, <<".fountain">>)
                    THEN Str(<<"fountain">>)
               ELSE options.input_format
       IN  /\ input_format' = format
           /\ IF undetected
              THEN error' = Raised("TypeError") /\ pc' = "raised"
              ELSE IF format.is_none \/ format.text \notin input_formats
              THEN error' = Usage("Unsupported input format") /\ pc' = "exit"
              ELSE pc' = "output_format" /\ UNCHANGED error
    /\ UNCHANGED <<classifierVars, args, options, input_file, output_file,
                   output_format, input, screenplay, output, exported, closed>>

\* lines 104-121
MainOutputFormat ==
    /\ pc = "output_format"
    /\ LET detect == options.output_format.is_none /\ ~output_file.is_none
           format ==
               IF ~detect THEN options.output_format
               ELSE IF endswith(output_file.text, <<".fdx">>) THEN Str(<<"fdx">>)
               ELSE IF endswith(output_file.text, <<".html">>) THEN Str(<<"html">>)
               ELSE IF endswith(output_file.text, <<".pdf">>) THEN Str(<<"pdf">>)
               ELSE options.output_format
       IN  /\ output_format' = format
           /\ IF detect /\ format.is_none
              THEN /\ error' = Usage("Could not detect output format from file name")
                   /\ pc' = "exit"
              ELSE IF format.is_none \/ format.text \notin output_formats
              THEN error' = Usage("Unsupported output format") /\ pc' = "exit"
              ELSE pc' = "open_input" /\ UNCHANGED error
    /\ UNCHANGED <<classifierVars, args, options, input_file, output_file,
                   input_format, input, screenplay, output, exported, closed>>

\* lines 123-127: codecs.open may raise, the reader of sys.stdin does not
MainOpenInput ==
    /\ pc = "open_input"
    /\ \/ /\ ~input_file.is_none
          /\ input' = "file"
          /\ pc' = "parse"
          /\ UNCHANGED error
       \/ /\ ~input_file.is_none
          /\ error' = Raised("IOError")
          /\ pc' = "raised"
          /\ UNCHANGED input
       \/ /\ input_file.is_none
          /\ input' = "stdin"
          /\ pc' = "parse"
          /\ UNCHANGED error
    /\ UNCHANGED <<classifierVars, args, options, input_file, output_file,
                   input_format, output_format, screenplay, output, exported, closed>>

\* fdx.parse -> parse_xml with the exception of etree.parse caught and passed over
MainParseFdxSwallowing ==
    /\ error' = Raised("XMLSyntaxError")
    /\ pc' = "open_output"
    /\ UNCHANGED <<root, screenplay>>

\* fdx.parse -> parse_xml lets an exception of etree.parse through
MainParseFdxRaising ==
    /\ error' = Raised("XMLSyntaxError")
    /\ pc' = "raised"
    /\ UNCHANGED <<root, screenplay>>

\* lines 129-132, and fdx.py lines 156-162 up to the call of parse_body
MainParse ==
    /\ pc = "parse"
    /\ IF input_format = Str(<<"fdx">>)
       THEN \/ MainParseFdxRaising
            \/ /\ root' \in MainDocuments
               /\ pc' = "call"
               /\ UNCHANGED <<screenplay, error>>
       ELSE \/ /\ error' = Raised("UnicodeDecodeError")
               /\ pc' = "raised"
               /\ UNCHANGED <<root, screenplay>>
            \/ /\ screenplay' = Screenplay("", <<>>)
               /\ pc' = "open_output"
               /\ UNCHANGED <<root, error>>
    /\ UNCHANGED <<paragraphs, para, tried, turn, nblocks, merged, idx, fed,
                   args, options, input_file, output_file, input_format,
                   output_format, input, output, exported, closed>>

\* fdx.py line 162: parse_body has returned, parse_xml returns the Screenplay
MainParsed ==
    /\ pc = "done"
    /\ screenplay' = Screenplay("UNTITLED DOCUMENT", paragraphs)
    /\ pc' = "open_output"
    /\ UNCHANGED <<classifierVars, args, options, input_file, output_file,
                   input_format, output_format, input, output, exported, closed,
                   error>>

\* lines 134-148
MainOpenOutput ==
    /\ pc = "open_output"
    /\ LET output_encoding ==
               IF output_format = Str(<<"pdf">>) THEN "binary" ELSE "utf-8"
       IN  \/ /\ ~output_file.is_none
              /\ output' = [to |-> "file", encoding |-> output_encoding]
              /\ pc' = "export"
              /\ UNCHANGED error
           \/ /\ ~output_file.is_none
              /\ error' = Raised("IOError")
              /\ pc' = "raised"
              /\ UNCHANGED output
           \/ /\ output_file.is_none
              /\ output' = [to |-> "stdout", encoding |-> output_encoding]
              /\ pc' = "export"
              /\ UNCHANGED error
    /\ UNCHANGED <<classifierVars, args, options, input_file, output_file,
                   input_format, output_format, input, screenplay, exported, closed>>

\* lines 150-168: the exporter returns or raises, the finally clause runs
MainExport ==
    /\ pc = "export"
    /\ exported' = exported \o exporters(output_format)
    /\ closed' = ~output_file.is_none
    /\ \/ pc' = "finished" /\ UNCHANGED error
       \/ /\ exporters(output_format) # <<>>
          /\ error' = Raised("ExportError")
          /\ pc' = "raised"
    /\ UNCHANGED <<classifierVars, args, options, input_file, output_file,
                   input_format, output_format, input, screenplay, output>>

NextMain ==
    \/ MainArgs
    \/ MainInputFormat
    \/ MainOutputFormat
    \/ MainOpenInput
    \/ MainParse
    \/ ParseBodyEnter
    \/ ParseBodyIterate
    \/ ParseBodyReturn
    \/ MainParsed
    \/ MainOpenOutput
    \/ MainExport

SpecMain == InitMain /\ [][NextMain]_vars

(***************************************************************************)
(* Vocabulary of the properties.                                           *)
(***************************************************************************)
LastOf(list) == list[Len(list)]

\* this step is one update_list call
Called == nblocks' = nblocks + 1

\* list2 is list1 with exactly one element appended
AppendsOne(list1, list2) ==
    /\ Len(list2) = Len(list1) + 1
    /\ SubSeq(list2, 1, Len(list1)) = list1

\* the first k characters of s are s without its trailing whitespace
RightTrimAt(s, k) ==
    /\ \A j \in (k + 1)..Len(s) : s[j] \in Whitespace
    /\ k = 0 \/ s[k] \notin Whitespace

\* s[m..k] is s without its leading and trailing whitespace
TrimAt(s, m, k) ==
    /\ \A j \in 1..(m - 1) : s[j] \in Whitespace
    /\ \A j \in (k + 1)..Len(s) : s[j] \in Whitespace
    /\ m > k \/ (s[m] \notin Whitespace /\ s[k] \notin Whitespace)

\* text is the RichString of line trimmed on both sides
IsTrimmedRich(text, line) ==
    \E m \in 1..(Len(line) + 1), k \in 0..Len(line) :
        TrimAt(line, m, k) /\ text = parse_emphasis(SubSeq(line, m, k))

\* e is an Action holding the lines, each right-trimmed, in order
IsActionOf(e, lines) ==
    /\ e.kind = "Action"
    /\ Len(e.lines) = Len(lines)
    /\ \A i \in 1..Len(lines) :
           \E k \in 0..Len(lines[i]) :
               /\ RightTrimAt(lines[i], k)
               /\ e.lines[i] = parse_emphasis(SubSeq(lines[i], 1, k))

\* u is the upper-cased form of s
IsUpperOf(u, s) ==
    /\ Len(u) = Len(s)
    /\ \A i \in 1..Len(s) : u[i] = UpperChar(s[i])

IsContinuation(self) ==
    self.lines_type \in {"Dialogue", "Parenthetical"} /\ Len(self.lines) >= 1

TailIsDialog(list) == list # <<>> /\ LastOf(list).kind = "Dialog"

(***************************************************************************)
(* C1.  Merge completeness: after a one-line Character block and any       *)
(* sequence of Dialogue/Parenthetical blocks carrying N lines in total,    *)
(* the Dialog at the tail has exactly N blocks, and the text of the i-th   *)
(* block is the i-th input line (trimmed, as a RichString).                *)
(***************************************************************************)
MergeCompleteness ==
    turn.active =>
        /\ TailIsDialog(paragraphs)
        /\ Len(LastOf(paragraphs).blocks) = Len(turn.lines)
        /\ \A i \in 1..Len(turn.lines) :
               IsTrimmedRich(LastOf(paragraphs).blocks[i][2], turn.lines[i])

(***************************************************************************)
(* C2.  Totality of the fallback: a block whose type tag is none of the    *)
(* six known tags appends, to any accumulator, exactly one Action whose    *)
(* lines are the block's lines, in order and equal in number, each         *)
(* right-trimmed.                                                          *)
(***************************************************************************)
FallbackTotal ==
    [][(Called /\ para'.lines_type \notin KnownTypes) =>
          /\ AppendsOne(paragraphs, paragraphs')
          /\ IsActionOf(LastOf(paragraphs'), para'.lines)]_vars

FallbackWitness ==
    /\ para.lines_type = "General"
    /\ para.lines = <<Paren, Italic>>
    /\ Len(paragraphs) = 3
    /\ paragraphs[2].kind = "Dialog"
    /\ LastOf(paragraphs).kind = "Action"
    /\ Len(LastOf(paragraphs).lines) = 2

(***************************************************************************)
(* C3.  Dialog.character is carried forward unchanged: while Dialogue and  *)
(* Parenthetical blocks continue the turn a Character block opened, the    *)
(* character of the tail Dialog is the value that block created, the       *)
(* upper-cased, trimmed cue.                                               *)
(***************************************************************************)
CharacterCarried ==
    turn.active =>
        /\ TailIsDialog(paragraphs)
        /\ \E m \in 1..(Len(turn.cue) + 1), k \in 0..Len(turn.cue) :
               /\ TrimAt(turn.cue, m, k)
               /\ LastOf(paragraphs).character
                    = parse_emphasis(upper(SubSeq(turn.cue, m, k)))

(***************************************************************************)
(* C4.  Dialog.blocks is append-only across merges: in every continuation  *)
(* step the blocks of the Dialog before the step are a prefix of the       *)
(* blocks of the Dialog that replaces it, and the new entries are the      *)
(* arriving block's lines.                                                 *)
(***************************************************************************)
BlocksAppendOnly ==
    [][(Called /\ IsContinuation(para') /\ TailIsDialog(paragraphs)) =>
          LET old == LastOf(paragraphs).blocks
              new == LastOf(paragraphs').blocks
          IN  /\ TailIsDialog(paragraphs')
              /\ Len(new) = Len(old) + Len(para'.lines)
              /\ SubSeq(new, 1, Len(old)) = old
              /\ \A i \in 1..Len(para'.lines) :
                     IsTrimmedRich(new[Len(old) + i][2], para'.lines[i])]_vars

(***************************************************************************)
(* C5.  No cross-cue merge: a one-line Character block appends one Dialog  *)
(* with empty blocks to any accumulator; when the block before it was a    *)
(* one-line Character block too, the Dialog that one created is still in   *)
(* its place, unchanged and with empty blocks.                             *)
(***************************************************************************)
IsCue(self) == self.lines_type = "Character" /\ Len(self.lines) = 1

IsEmptyDialog(e) == e.kind = "Dialog" /\ e.blocks = <<>>

NoCrossCueMerge ==
    [][(Called /\ IsCue(para')) =>
          /\ AppendsOne(paragraphs, paragraphs')
          /\ IsEmptyDialog(LastOf(paragraphs'))
          /\ IsCue(para) =>
                 /\ TailIsDialog(paragraphs)
                 /\ IsEmptyDialog(LastOf(paragraphs))
                 /\ paragraphs'[Len(paragraphs)] = LastOf(paragraphs)]_vars

NoCrossCueMergeWitness ==
    /\ IsCue(para)
    /\ Len(paragraphs) = 3
    /\ paragraphs[1].kind = "Slug"
    /\ IsEmptyDialog(paragraphs[2])
    /\ IsEmptyDialog(paragraphs[3])
    /\ paragraphs[2].character # paragraphs[3].character

(***************************************************************************)
(* C6.  A Dialogue or Parenthetical block that arrives when the            *)
(* accumulator is empty or its tail is not a Dialog is not merged: it      *)
(* appends one Action holding the block's lines, and the elements already  *)
(* there stay as they are.                                                 *)
(***************************************************************************)
UnattachedContinuation ==
    [][(/\ Called
        /\ para'.lines_type \in {"Dialogue", "Parenthetical"}
        /\ ~TailIsDialog(paragraphs)) =>
          /\ AppendsOne(paragraphs, paragraphs')
          /\ IsActionOf(LastOf(paragraphs'), para'.lines)]_vars

UnattachedContinuationWitness ==
    /\ para = InputParagraph("Parenthetical", <<Paren, Italic>>)
    /\ Len(paragraphs) = 2
    /\ paragraphs[1].kind = "Transition"
    /\ paragraphs[2].kind = "Action"
    /\ Len(paragraphs[2].lines) = 2

(***************************************************************************)
(* C7.  Case normalization: a one-line block tagged Scene Heading or Shot  *)
(* appends a Slug, one tagged Character a Dialog, one tagged Transition a  *)
(* Transition, whose text is the upper-cased line (for the Character       *)
(* block, trimmed as well).                                                *)
(***************************************************************************)
CaseNormalized ==
    [][(Called /\ Len(para'.lines) = 1) =>
          LET line == para'.lines[1]
              e == LastOf(paragraphs')
          IN  /\ para'.lines_type \in {"Scene Heading", "Shot"} =>
                     e.kind = "Slug" /\ e.line = parse_emphasis(upper(line))
              /\ para'.lines_type = "Character" =>
                     /\ e.kind = "Dialog"
                     /\ \E m \in 1..(Len(line) + 1), k \in 0..Len(line) :
                            /\ TrimAt(line, m, k)
                            /\ e.character
                                 = parse_emphasis(upper(SubSeq(line, m, k)))
              /\ para'.lines_type = "Transition" =>
                     e.kind = "Transition" /\ e.line = parse_emphasis(upper(line))]_vars

CaseNormalizedWitness ==
    /\ para = InputParagraph("Transition", <<Padded>>)
    /\ Len(paragraphs) = 3
    /\ paragraphs[1] = Slug(<<Segment(<<" ", "A", " ">>, {})>>)
    /\ paragraphs[2] = Dialog(<<Segment(<<"A">>, {})>>, <<>>)
    /\ paragraphs[3] = Transition(<<Segment(<<" ", "A", " ">>, {})>>)

(***************************************************************************)
(* C8.  First-match priority: in every call the rules evaluated are the    *)
(* rules up to the first one, in the order slug, character, dialogue-      *)
(* continuation, transition, action, whose preconditions hold; that rule   *)
(* alone changes the accumulator, and no later rule is evaluated.          *)
(***************************************************************************)
Rules == <<"slug", "character", "dialog", "transition", "action">>

Holds(rule, self, list) ==
    CASE rule = "slug" ->
             Len(self.lines) = 1 /\ self.lines_type \in {"Scene Heading", "Shot"}
      [] rule = "character" ->
             Len(self.lines) = 1 /\ self.lines_type = "Character"
      [] rule = "dialog" ->
             IsContinuation(self) /\ TailIsDialog(list)
      [] rule = "transition" ->
             Len(self.lines) = 1 /\ self.lines_type = "Transition"
      [] rule = "action" -> TRUE

Effect(rule, list1, list2) ==
    CASE rule = "slug" -> AppendsOne(list1, list2) /\ LastOf(list2).kind = "Slug"
      [] rule = "character" ->
             AppendsOne(list1, list2) /\ LastOf(list2).kind = "Dialog"
      [] rule = "dialog" ->
             /\ Len(list2) = Len(list1)
             /\ SubSeq(list2, 1, Len(list1) - 1) = SubSeq(list1, 1, Len(list1) - 1)
             /\ LastOf(list2).kind = "Dialog"
             /\ list2 # list1
      [] rule = "transition" ->
             AppendsOne(list1, list2) /\ LastOf(list2).kind = "Transition"
      [] rule = "action" -> AppendsOne(list1, list2) /\ LastOf(list2).kind = "Action"

FirstMatch ==
    [][Called =>
          LET n == CHOOSE i \in 1..Len(Rules) :
                       /\ Holds(Rules[i], para', paragraphs)
                       /\ \A j \in 1..(i - 1) : ~Holds(Rules[j], para', paragraphs)
          IN  /\ tried' = SubSeq(Rules, 1, n)
              /\ Effect(Rules[n], paragraphs, paragraphs')]_vars

FirstMatchWitness ==
    /\ tried = <<"slug", "character", "dialog", "transition">>
    /\ para.lines_type = "Transition"
    /\ Len(paragraphs) = 2
    /\ paragraphs[1].kind = "Dialog"
    /\ paragraphs[2].kind = "Transition"

(***************************************************************************)
(* C9.  A block tagged Scene Heading, Shot, Character or Transition that   *)
(* has more than one line produces no Slug, Dialog or Transition: it       *)
(* appends exactly one Action whose lines are the input lines              *)
(* right-trimmed, whatever the tail of the accumulator is.                 *)
(***************************************************************************)
MultiLineFallsBack ==
    [][(/\ Called
        /\ para'.lines_type \in {"Scene Heading", "Shot", "Character", "Transition"}
        /\ Len(para'.lines) > 1) =>
          /\ AppendsOne(paragraphs, paragraphs')
          /\ IsActionOf(LastOf(paragraphs'), para'.lines)]_vars

MultiLineFallsBackWitness ==
    /\ para = InputParagraph("Shot", <<Paren, Italic>>)
    /\ Len(paragraphs) = 2
    /\ paragraphs[1].kind = "Dialog"
    /\ IsActionOf(paragraphs[2], para.lines)

(***************************************************************************)
(* C10.  parse_body skips the first Paragraph and submits every other one  *)
(* to the classifier exactly once, in document order: when it returns,     *)
(* max(P - 1, 0) blocks have been classified for a document of P           *)
(* paragraphs, and the k-th of them is the (k+1)-th paragraph.             *)
(***************************************************************************)
SkipsFirstParagraph ==
    /\ pc \in {"loop", "done"} =>
           /\ nblocks = Len(fed)
           /\ \A k \in 1..Len(fed) :
                  fed[k] = k + 1 /\ root[fed[k]].pos = k + 1
           /\ fed # <<>> =>
                  /\ para.lines_type = root[LastOf(fed)].Type
                  /\ para.lines = split(JoinText(root[LastOf(fed)].Text))
    /\ pc = "done" =>
           Len(fed) = (IF Len(root) >= 1 THEN Len(root) - 1 ELSE 0)

SkipsFirstParagraphWitness ==
    /\ pc = "done"
    /\ Len(root) = 3
    /\ fed = <<2, 3>>
    /\ para.lines_type = root[3].Type
    /\ root[1].Type = "Character"
    /\ root[2].Type = "Dialogue"
    /\ Len(paragraphs) = 2

(***************************************************************************)
(* C11.  Missing or empty text content: a Paragraph with no Text children, *)
(* or whose Text children hold no text, is submitted as the one-line block *)
(* [''], parse_body goes on with its loop, and the classifier handles the  *)
(* block by the first rule that holds for a one-line block of its type.    *)
(***************************************************************************)
HasNoText(node) ==
    \A i \in 1..Len(node.Text) : node.Text[i].is_none \/ node.Text[i].text = <<>>

FirstRule(self, list) ==
    CHOOSE i \in 1..Len(Rules) :
        /\ Holds(Rules[i], self, list)
        /\ \A j \in 1..(i - 1) : ~Holds(Rules[j], self, list)

EmptyTextIsOneEmptyLine ==
    [][(pc = "loop" /\ Called /\ HasNoText(root[idx + 1])) =>
          LET self == InputParagraph(root[idx + 1].Type, <<Empty>>)
              n == FirstRule(self, paragraphs)
          IN  /\ para' = self
              /\ pc' = "loop"
              /\ Effect(Rules[n], paragraphs, paragraphs')
              /\ Rules[n] = "character" =>
                     LastOf(paragraphs').character = <<>>
              /\ Rules[n] = "dialog" =>
                     /\ Len(LastOf(paragraphs').blocks)
                          = Len(LastOf(paragraphs).blocks) + 1
                     /\ LastOf(LastOf(paragraphs').blocks)[2] = <<>>
              /\ Rules[n] = "action" =>
                     LastOf(paragraphs').lines = <<<<>>>>]_vars

EmptyTextWitness ==
    /\ pc = "done"
    /\ Len(root) = 3
    /\ root[2].Type = "Character" /\ root[2].Text = <<>>
    /\ root[3].Type = "Dialogue" /\ root[3].Text = <<None, Text(Empty)>>
    /\ para = InputParagraph("Dialogue", <<Empty>>)
    /\ paragraphs = <<Dialog(<<>>, <<<<>>>>)>>

(***************************************************************************)
(* C14.  The Dialogue and the Parenthetical tag are treated alike: from    *)
(* every accumulator and for every list of lines, the call with the one    *)
(* tag and the call with the other leave the same accumulator, by the      *)
(* same rule.                                                              *)
(***************************************************************************)
TagsAlike ==
    \A lines \in LineLists \cup {<<>>} :
        update_list(InputParagraph("Dialogue", lines), paragraphs)
          = update_list(InputParagraph("Parenthetical", lines), paragraphs)

TagsAlikeWitness ==
    /\ para = InputParagraph("Parenthetical", <<Paren, Italic>>)
    /\ tried = <<"slug", "character", "dialog">>
    /\ Len(paragraphs) = 1
    /\ Len(LastOf(paragraphs).blocks) = 3
    /\ paragraphs
         = update_list(InputParagraph("Dialogue", <<Paren, Italic>>),
                       <<Dialog(<<>>, <<parse_emphasis(<<"a">>)>>)>>).paragraphs

(***************************************************************************)
(* C15.  No block is dropped and the accumulator never shrinks: after k    *)
(* calls its length is k minus the number of calls the continuation rule   *)
(* consumed; a call consumed by that rule leaves the length as it is, any  *)
(* other call makes it one longer.                                         *)
(***************************************************************************)
NeverShrinks ==
    /\ [](Len(paragraphs) = nblocks - merged)
    /\ [][Called =>
             IF LastOf(tried') = "dialog"
             THEN Len(paragraphs') = Len(paragraphs) /\ merged' = merged + 1
             ELSE Len(paragraphs') = Len(paragraphs) + 1 /\ merged' = merged]_vars

NeverShrinksWitness ==
    /\ nblocks = 3
    /\ merged = 1
    /\ Len(paragraphs) = 2
    /\ paragraphs[2].kind = "Action"
    /\ para = InputParagraph("General", <<Empty>>)

(***************************************************************************)
(* C16.  Only the tail is ever replaced: a call leaves every element but   *)
(* the last where and what it was; the last one changes only when the      *)
(* continuation rule consumes the block, and then a Dialog takes the       *)
(* place of a Dialog.                                                      *)
(***************************************************************************)
OnlyTailReplaced ==
    [][Called =>
          /\ Len(paragraphs') >= Len(paragraphs)
          /\ \A i \in 1..(Len(paragraphs) - 1) : paragraphs'[i] = paragraphs[i]
          /\ (paragraphs # <<>> /\ paragraphs'[Len(paragraphs)] # LastOf(paragraphs)) =>
                 /\ LastOf(tried') = "dialog"
                 /\ LastOf(paragraphs).kind = "Dialog"
                 /\ paragraphs'[Len(paragraphs)].kind = "Dialog"
                 /\ Len(paragraphs') = Len(paragraphs)]_vars

OnlyTailReplacedWitness ==
    /\ Len(paragraphs) = 2
    /\ tried # <<>>
    /\ LastOf(tried) = "dialog"
    /\ paragraphs[1].kind = "Slug"
    /\ paragraphs[2].kind = "Dialog"
    /\ Len(paragraphs[2].blocks) = 2

(***************************************************************************)
(* Vocabulary of the properties of main.                                   *)
(***************************************************************************)
NoInputArgument == Len(args) = 0 \/ args[1] = Dash

NoOutputArgument == Len(args) <= 1 \/ args[2] = Dash

\* main has ended
Ended == pc \in {"finished", "exit", "raised"}

\* main is past its format checks and has not ended
Validated ==
    pc \in {"open_input", "parse", "call", "loop", "done", "open_output", "export"}

(***************************************************************************)
(* C12.  No partial success: when etree.parse raises, there is no          *)
(* Screenplay, no exporter is called and no output is opened; the output   *)
(* is opened, and an exporter called, only after the whole input has been  *)
(* parsed.                                                                 *)
(***************************************************************************)
NoPartialSuccess ==
    /\ error = Raised("XMLSyntaxError") =>
           /\ pc = "raised"
           /\ screenplay = NoScreenplay
           /\ exported = <<>>
           /\ output = Unopened
           /\ ~closed
    /\ output # Unopened => ~screenplay.is_none
    /\ exported # <<>> => ~screenplay.is_none /\ output # Unopened

NoPartialSuccessWitness ==
    /\ error = Raised("XMLSyntaxError")
    /\ input = "file"
    /\ output_file = Str(<<"a", ".html">>)
    /\ output = Unopened

UndetectedInputFormat ==
    (/\ pc \notin {"main", "input_format"}
     /\ Len(args) < 3
     /\ options.input_format.is_none
     /\ ~input_file.is_none
     /\ ~endswith(input_file.text, <<".fdx">>)
     /\ ~endswith(input_file.text, <<".fountain">>)) =>
        /\ pc = "exit"
        /\ error = Usage("Could not detect input format from file name")
        /\ screenplay = NoScreenplay
        /\ input = "unopened"
        /\ output = Unopened

(***************************************************************************)
(* C18.  Past the format checks the output format is one of 'fdx', 'html', *)
(* 'pdf'; at the export step each of them selects exactly one exporter,    *)
(* and a run that finishes has called exactly that one, on the parsed      *)
(* screenplay.                                                             *)
(***************************************************************************)
ExactlyOneExporter ==
    /\ (Validated \/ pc = "finished") =>
           ~output_format.is_none /\ output_format.text \in output_formats
    /\ pc = "export" => Len(exporters(output_format)) = 1
    /\ exported # <<>> =>
           /\ pc \in {"finished", "raised"}
           /\ ~screenplay.is_none
           /\ exported
                = (CASE output_format.text = <<"fdx">> -> <<"to_fdx">>
                     [] output_format.text = <<"html">> -> <<"convert">>
                     [] output_format.text = <<"pdf">> -> <<"to_pdf">>)
    /\ pc = "finished" => Len(exported) = 1

ExactlyOneExporterWitness ==
    /\ pc = "finished"
    /\ options.output_format.is_none
    /\ exported = <<"to_pdf">>
    /\ output = [to |-> "file", encoding |-> "binary"]
    /\ closed
    /\ Len(screenplay.paragraphs) = 1

====
